---- MODULE Spec2Model ----
(***************************************************************************)
(* termul.py: an asyncio scan engine.  Ten check coroutines, each wrapped  *)
(* in waf_guarded, run under asyncio.gather and share four module-level    *)
(* globals: findings, critical_count, stop_scan and logic_graph.           *)
(*                                                                         *)
(* asyncio runs one coroutine at a time and switches only at an await, so  *)
(* one action of this module is the code a task runs between two           *)
(* suspensions: from the end of asyncio.sleep to the await inside fetch,   *)
(* and from the return of fetch to the next await or to the task's end.    *)
(***************************************************************************)
EXTENDS Integers, Sequences, FiniteSets, TLC

\* ---------------------------------------------------------------- CONFIG
MAX_CONCURRENCY == 10
CRITICAL_STOP_THRESHOLD == 2

\* fetch's result when session.request raises: `return None, None`
None == 0

\* the number of invocations of termul_full_async the re-invocation
\* specification follows (the script's __main__ makes one)
MaxScans == 2

\* ------------------------------------------------------- the task table
\* TARGET of __main__; the URLs are built as termul_full_async builds them
base_url == "https://target.com"

exposed == << "admin", "api/admin", "debug", "internal" >>
missing_auth == << "/api/admin", "/api/internal/report" >>
admin_eps == << "/api/admin/approve", "/api/admin/delete" >>

\* tasks in the order termul_full_async appends them to `tasks`
ExposedTasks == 1..4
MissingAuthTasks == 5..6
IdorTask == 7
PrivilegeTasks == 8..9
WorkflowTask == 10
Tasks == 1..10

\* range(1, 6) of check_idor
IdorIds == 1..5

Digit(i) == CASE i = 1 -> "1" [] i = 2 -> "2" [] i = 3 -> "3"
              [] i = 4 -> "4" [] i = 5 -> "5"

\* the url argument each task's check coroutine is created with
TaskUrl(t) ==
    CASE t \in ExposedTasks     -> base_url \o "/" \o exposed[t]
      [] t \in MissingAuthTasks -> base_url \o missing_auth[t - 4]
      [] t = IdorTask           -> base_url \o "/api/user/profile"
      [] t \in PrivilegeTasks   -> base_url \o admin_eps[t - 7]
      [] t = WorkflowTask       -> base_url \o "/api/order/complete"

\* f"{base}?id={i}"
IdorUrl(i) == TaskUrl(IdorTask) \o "?id=" \o Digit(i)

\* One request of a scan: the task that makes it and, for check_idor, the id.
Req(t, i) == << t, i >>
Requests == { Req(t, 1) : t \in Tasks \ {IdorTask} }
              \cup { Req(IdorTask, i) : i \in IdorIds }

\* ------------------------------------------------------------ the target
\* What the scanned server does with a request: it answers with a status,
\* or the transport fails (timeout, refused connection, DNS, protocol).
Answer(s) == [err |-> FALSE, status |-> s]
Failure == [err |-> TRUE, status |-> None]

\* the server answers 200 exactly on the requests of S and `other` elsewhere
Only(S, other) == [r \in Requests |-> IF r \in S THEN Answer(200) ELSE other]

AllFail == [r \in Requests |-> Failure]
\* 200 for GET <base>/admin and GET <base>/api/internal/report, 404 otherwise
Scenario1 == Only({Req(1, 1), Req(6, 1)}, Answer(404))
\* 200 for both privilege endpoints and for the IDOR id 1
Scenario2 == Only({Req(8, 1), Req(9, 1), Req(IdorTask, 1)}, Answer(404))
\* 200 for the IDOR ids 1 and 2; the WAF statuses elsewhere
Idor12 == [r \in Requests |->
             IF r \in {Req(IdorTask, 1), Req(IdorTask, 2)} THEN Answer(200)
             ELSE IF r[1] \in ExposedTasks THEN Answer(429) ELSE Answer(403)]

\* 200 for the IDOR ids 1 and 2, a network failure for every exposed-route
\* request, 404 elsewhere: responses of all three kinds and an early stop
Mixed == [r \in Requests |->
            IF r \in {Req(IdorTask, 1), Req(IdorTask, 2)} THEN Answer(200)
            ELSE IF r[1] \in ExposedTasks THEN Failure ELSE Answer(404)]

\* the requests of the checks that record a CRITICAL finding
CriticalRequests == { r \in Requests :
                        r[1] \in MissingAuthTasks \cup {IdorTask} \cup PrivilegeTasks }
\* exactly two CRITICAL-producing requests answered 200, the rest non-200
\* one pair for each combination of the three CRITICAL checks
PairTargets == { Only({Req(5, 1), Req(6, 1)}, Answer(404)),
                 Only({Req(6, 1), Req(IdorTask, 3)}, Answer(403)),
                 Only({Req(5, 1), Req(8, 1)}, Answer(429)),
                 Only({Req(IdorTask, 2), Req(IdorTask, 5)}, Answer(404)),
                 Only({Req(IdorTask, 4), Req(9, 1)}, Answer(500)),
                 Only({Req(8, 1), Req(9, 1)}, Answer(404)) }
\* 200 for every request of the three CRITICAL checks, 404 for the others
AllCritical == Only(CriticalRequests, Answer(404))
\* 200 for every request of the two HIGH checks, the WAF status 403 for the others
AllHigh == Only(Requests \ CriticalRequests, Answer(403))
\* the requests a server answers with 200
Positive(server) == { r \in Requests : server[r] = Answer(200) }

\* the servers the main specification scans
Targets == {AllFail, Scenario1, Scenario2, Idor12}

\* ----------------------------------------------------------------- state
VARIABLES
    findings,        \* the global list `findings`
    critical_count,  \* the global `critical_count`
    stop_scan,       \* the global `stop_scan`
    logic_graph,     \* the global defaultdict(list) `logic_graph`: its keys
    pc,              \* per task: "none", "sleep", "fetch" or "done"
    idor_i,          \* the loop variable i of check_idor
    phase,           \* termul_full_async: "idle", "running" or "returned"
    scans,           \* how many times termul_full_async was called
    target,          \* the scanned server
    requested,       \* the requests issued so far in the running scan
    sent             \* how many times fetch was called in the running scan

vars == << findings, critical_count, stop_scan, logic_graph, pc, idor_i,
           phase, scans, target, requested, sent >>

\* the four globals as one value, for the functions that update them
Globals == [findings |-> findings, critical_count |-> critical_count,
            stop_scan |-> stop_scan, logic_graph |-> logic_graph]

SetGlobals(g) ==
    /\ findings' = g.findings
    /\ critical_count' = g.critical_count
    /\ stop_scan' = g.stop_scan
    /\ logic_graph' = g.logic_graph

\* ------------------------------------------------------------------ UTIL
\* add_finding counting every finding, whatever its risk
add_finding_counts_all(g, f) ==
    LET count == g.critical_count + 1
    IN  [g EXCEPT !.findings = Append(g.findings, f),
                  !.critical_count = count,
                  !.stop_scan = IF count >= CRITICAL_STOP_THRESHOLD THEN TRUE
                                ELSE g.stop_scan]

\* add_finding comparing with > where the code compares with >=
add_finding_stops_late(g, f) ==
    LET count == IF f.risk = "CRITICAL" THEN g.critical_count + 1
                 ELSE g.critical_count
    IN  [g EXCEPT !.findings = Append(g.findings, f),
                  !.critical_count = count,
                  !.stop_scan = IF count > CRITICAL_STOP_THRESHOLD THEN TRUE
                                ELSE g.stop_scan]

\* add_finding assigning the comparison (with ==) to stop_scan
add_finding_rearms(g, f) ==
    LET count == IF f.risk = "CRITICAL" THEN g.critical_count + 1
                 ELSE g.critical_count
    IN  [g EXCEPT !.findings = Append(g.findings, f),
                  !.critical_count = count,
                  !.stop_scan = (count = CRITICAL_STOP_THRESHOLD)]

\* add_finding reaching the threshold one finding early
add_finding_stops_early(g, f) ==
    LET count == IF f.risk = "CRITICAL" THEN g.critical_count + 1
                 ELSE g.critical_count
    IN  [g EXCEPT !.findings = Append(g.findings, f),
                  !.critical_count = count,
                  !.stop_scan = IF count + 1 >= CRITICAL_STOP_THRESHOLD THEN TRUE
                                ELSE g.stop_scan]

\* add_finding as a hard cap: nothing is recorded once stop_scan is set
add_finding_drops_after_stop(g, f) ==
    LET count == IF f.risk = "CRITICAL" THEN g.critical_count + 1
                 ELSE g.critical_count
    IN  IF g.stop_scan THEN g
        ELSE [g EXCEPT !.findings = Append(g.findings, f),
                       !.critical_count = count,
                       !.stop_scan = count >= CRITICAL_STOP_THRESHOLD]

add_finding(g, f) ==
    LET count == IF f.risk = "CRITICAL" THEN g.critical_count + 1
                 ELSE g.critical_count
    IN  [g EXCEPT !.findings = Append(g.findings, f),
                  !.critical_count = count,
                  !.stop_scan = IF count >= CRITICAL_STOP_THRESHOLD THEN TRUE
                                ELSE g.stop_scan]

\* logic_graph[source].append(target) on a defaultdict(list)
correlate(g, source, label) ==
    LET old == IF source \in DOMAIN g.logic_graph THEN g.logic_graph[source]
               ELSE << >>
    IN  [g EXCEPT !.logic_graph =
            [k \in DOMAIN g.logic_graph \cup {source} |->
                IF k = source THEN Append(old, label) ELSE g.logic_graph[k]]]

\* the status fetch returns for what the server did with the request
fetch(outcome) == IF outcome.err THEN None ELSE outcome.status

\* ------------------------------------------------------- ASYNC CHECKERS
\* what each check does with the status of its request (the code after
\* `await fetch`)
\* check_exposed_route taking every status but 404 for a positive
exposed_route_not_404(g, url, status) ==
    IF status # 404
    THEN add_finding(g, [type |-> "EXPOSED_ROUTE", endpoint |-> url, risk |-> "HIGH"])
    ELSE g

exposed_route_result(g, url, status) ==
    IF status = 200
    THEN add_finding(g, [type |-> "EXPOSED_ROUTE", endpoint |-> url, risk |-> "HIGH"])
    ELSE g

\* check_missing_auth recording the risk of check_exposed_route
missing_auth_high(g, url, status) ==
    IF status = 200
    THEN add_finding(g, [type |-> "MISSING_AUTH", endpoint |-> url, risk |-> "HIGH"])
    ELSE g

missing_auth_result(g, url, status) ==
    IF status = 200
    THEN add_finding(g, [type |-> "MISSING_AUTH", endpoint |-> url, risk |-> "CRITICAL"])
    ELSE g

\* check_idor taking any answer of the server for a positive
idor_any_response(g, url, status) ==
    IF status # None
    THEN correlate(add_finding(g, [type |-> "IDOR", endpoint |-> url, risk |-> "CRITICAL"]),
                   "IDOR", "DATA_DISCLOSURE")
    ELSE g

idor_result(g, url, status) ==
    IF status = 200
    THEN correlate(add_finding(g, [type |-> "IDOR", endpoint |-> url, risk |-> "CRITICAL"]),
                   "IDOR", "DATA_DISCLOSURE")
    ELSE g

\* check_privilege with correlate outside the `if status == 200` block
privilege_correlates_always(g, url, status) ==
    correlate(IF status = 200
              THEN add_finding(g, [type |-> "PRIVILEGE_ESCALATION", endpoint |-> url,
                                   risk |-> "CRITICAL"])
              ELSE g,
              "PRIVILEGE_ESCALATION", "ADMIN_ACTION")

privilege_result(g, url, status) ==
    IF status = 200
    THEN correlate(add_finding(g, [type |-> "PRIVILEGE_ESCALATION", endpoint |-> url,
                                   risk |-> "CRITICAL"]),
                   "PRIVILEGE_ESCALATION", "ADMIN_ACTION")
    ELSE g

\* check_workflow recording its finding without the correlate call
workflow_no_edge(g, url, status) ==
    IF status = 200
    THEN add_finding(g, [type |-> "WORKFLOW_BYPASS", endpoint |-> url, risk |-> "HIGH"])
    ELSE g

workflow_result(g, url, status) ==
    IF status = 200
    THEN correlate(add_finding(g, [type |-> "WORKFLOW_BYPASS", endpoint |-> url,
                                   risk |-> "HIGH"]),
                   "WORKFLOW_BYPASS", "FINANCIAL_IMPACT")
    ELSE g

\* waf_guarded: the task's asyncio.sleep(WAF_DELAY) is over and `await task`
\* runs the check coroutine up to its first suspension
waf_guarded(t) == pc[t] = "sleep"

\* a check that calls fetch without looking at stop_scan
FetchAlways(t, r) ==
    /\ pc' = [pc EXCEPT ![t] = "fetch"]
    /\ requested' = requested \cup {r}
    /\ sent' = sent + 1

\* `if stop_scan: return`, else the call of fetch for request r
StopOrFetch(t, r) ==
    IF stop_scan
    THEN /\ pc' = [pc EXCEPT ![t] = "done"]
         /\ UNCHANGED << requested, sent >>
    ELSE /\ pc' = [pc EXCEPT ![t] = "fetch"]
         /\ requested' = requested \cup {r}
         /\ sent' = sent + 1

\* fetch returned: the check handles the status and the coroutine ends
Finish(t, g) ==
    /\ pc[t] = "fetch"
    /\ SetGlobals(g)
    /\ pc' = [pc EXCEPT ![t] = "done"]
    /\ UNCHANGED << idor_i, phase, scans, target, requested, sent >>

Begin(t) ==
    /\ waf_guarded(t)
    /\ StopOrFetch(t, Req(t, 1))
    /\ UNCHANGED << findings, critical_count, stop_scan, logic_graph, idor_i,
                    phase, scans, target >>

check_exposed_route(t) ==
    \/ Begin(t)
    \/ Finish(t, exposed_route_result(Globals, TaskUrl(t), fetch(target[Req(t, 1)])))

check_missing_auth(t) ==
    \/ Begin(t)
    \/ Finish(t, missing_auth_result(Globals, TaskUrl(t), fetch(target[Req(t, 1)])))

check_privilege(t) ==
    \/ Begin(t)
    \/ Finish(t, privilege_result(Globals, TaskUrl(t), fetch(target[Req(t, 1)])))

check_workflow(t) ==
    \/ Begin(t)
    \/ Finish(t, workflow_result(Globals, TaskUrl(t), fetch(target[Req(t, 1)])))

\* `for i in range(1, 6): if stop_scan: return`: whether the loop goes on to
\* the request for id i, in the globals g the previous iteration left
\* a loop that looks at stop_scan only before its first request
idor_continues_unchecked(g, i) == i \in IdorIds

\* a loop head that reads the flag as it was before add_finding ran
idor_continues_stale(g, i) == i \in IdorIds /\ ~stop_scan

idor_continues(g, i) == i \in IdorIds /\ ~g.stop_scan

\* check_idor with one of four slips: `burst` starts the five requests at
\* once, `regate` puts the WAF delay inside the loop, `same_id` formats the
\* url with a constant id, `abort` leaves the loop on a network failure
idor_variant(burst, regate, same_id, abort) ==
    \/ /\ waf_guarded(IdorTask)
       /\ idor_i' = IF idor_i = 0 THEN 1 ELSE idor_i
       /\ IF stop_scan
          THEN /\ pc' = [pc EXCEPT ![IdorTask] = "done"]
               /\ UNCHANGED << requested, sent >>
          ELSE /\ pc' = [pc EXCEPT ![IdorTask] = "fetch"]
               /\ requested' = requested \cup
                    (IF burst THEN { Req(IdorTask, i) : i \in IdorIds }
                     ELSE { Req(IdorTask, IF same_id THEN 1 ELSE idor_i') })
               /\ sent' = sent + (IF burst THEN Cardinality(IdorIds) ELSE 1)
       /\ UNCHANGED << findings, critical_count, stop_scan, logic_graph,
                       phase, scans, target >>
    \/ /\ pc[IdorTask] = "fetch"
       /\ LET id == IF same_id THEN 1 ELSE idor_i
              status == fetch(target[Req(IdorTask, id)])
              g == idor_result(Globals, IdorUrl(id), status)
          IN  /\ SetGlobals(g)
              /\ IF idor_continues(g, idor_i + 1) /\ ~(abort /\ status = None)
                 THEN /\ idor_i' = idor_i + 1
                      /\ IF burst \/ regate
                         THEN UNCHANGED << requested, sent >>
                         ELSE /\ requested' = requested \cup
                                   { Req(IdorTask, IF same_id THEN 1 ELSE idor_i + 1) }
                              /\ sent' = sent + 1
                      /\ pc' = IF regate THEN [pc EXCEPT ![IdorTask] = "sleep"]
                               ELSE pc
                 ELSE /\ pc' = [pc EXCEPT ![IdorTask] = "done"]
                      /\ UNCHANGED << idor_i, requested, sent >>
       /\ UNCHANGED << phase, scans, target >>

check_idor_burst == idor_variant(TRUE, FALSE, FALSE, FALSE)
check_idor_regated == idor_variant(FALSE, TRUE, FALSE, FALSE)
check_idor_same_id == idor_variant(FALSE, FALSE, TRUE, FALSE)
check_idor_aborts == idor_variant(FALSE, FALSE, FALSE, TRUE)

check_idor ==
    \/ /\ waf_guarded(IdorTask)
       /\ idor_i' = 1
       /\ StopOrFetch(IdorTask, Req(IdorTask, 1))
       /\ UNCHANGED << findings, critical_count, stop_scan, logic_graph,
                       phase, scans, target >>
    \/ /\ pc[IdorTask] = "fetch"
       /\ LET g == idor_result(Globals, IdorUrl(idor_i),
                               fetch(target[Req(IdorTask, idor_i)]))
          IN  /\ SetGlobals(g)
              /\ IF idor_continues(g, idor_i + 1)
                 THEN /\ idor_i' = idor_i + 1
                      /\ requested' = requested \cup {Req(IdorTask, idor_i + 1)}
                      /\ sent' = sent + 1
                      /\ UNCHANGED pc
                 ELSE /\ pc' = [pc EXCEPT ![IdorTask] = "done"]
                      /\ UNCHANGED << idor_i, requested, sent >>
       /\ UNCHANGED << phase, scans, target >>

\* ---------------------------------------------------- FULL ASYNC ENGINE
\* termul_full_async is called (at most `limit` times): it builds the ten
\* tasks and gather starts them; each reaches asyncio.sleep in waf_guarded.
\* Nothing in it touches the four globals.
termul_full_async(limit) ==
    /\ phase # "running"
    /\ scans < limit
    /\ phase' = "running"
    /\ scans' = scans + 1
    /\ pc' = [t \in Tasks |-> "sleep"]
    /\ idor_i' = 0
    /\ requested' = {}
    /\ sent' = 0
    /\ UNCHANGED << findings, critical_count, stop_scan, logic_graph, target >>

\* a join that waits for fourteen responses instead of for the ten tasks
gather_counts_requests ==
    /\ phase = "running"
    /\ \A t \in Tasks : pc[t] = "done"
    /\ requested = Requests
    /\ phase' = "returned"
    /\ UNCHANGED << findings, critical_count, stop_scan, logic_graph, pc,
                    idor_i, scans, target, requested, sent >>

\* `await asyncio.gather(*tasks)` returns once every task has ended
gather ==
    /\ phase = "running"
    /\ \A t \in Tasks : pc[t] = "done"
    /\ phase' = "returned"
    /\ UNCHANGED << findings, critical_count, stop_scan, logic_graph, pc,
                    idor_i, scans, target, requested, sent >>

\* --------------------------------------------------------- specification
\* the module's globals as the import leaves them; no scan has started
Start(servers) ==
    /\ findings = << >>
    /\ critical_count = 0
    /\ stop_scan = FALSE
    /\ logic_graph = << >>
    /\ pc = [t \in Tasks |-> "none"]
    /\ idor_i = 0
    /\ phase = "idle"
    /\ scans = 0
    /\ requested = {}
    /\ sent = 0
    /\ target \in servers

Init == Start(Targets)

Checks ==
    \/ \E t \in ExposedTasks : check_exposed_route(t)
    \/ \E t \in MissingAuthTasks : check_missing_auth(t)
    \/ check_idor
    \/ \E t \in PrivilegeTasks : check_privilege(t)
    \/ check_workflow(WorkflowTask)

\* the script: __main__ calls termul_full_async once
Next ==
    \/ termul_full_async(1)
    \/ Checks
    \/ gather

Spec == Init /\ [][Next]_vars

\* a process that calls termul_full_async again after a scan has returned
ReTargets == {AllFail, Idor12}
ReInit == Start(ReTargets)
ReNext ==
    \/ termul_full_async(MaxScans)
    \/ Checks
    \/ gather
SpecReinvoke == ReInit /\ [][ReNext]_vars

\* two CRITICAL-producing requests answered 200, everything else non-200
ThresholdInit == Start(PairTargets)
SpecThreshold == ThresholdInit /\ [][Next]_vars

\* servers that answer 200 to every request of one risk class: every check
\* variant records findings, as many as it can
PositiveTargets == {AllCritical, AllHigh}
PositiveInit == Start(PositiveTargets)
SpecPositive == PositiveInit /\ [][Next]_vars

\* The event loop runs every task that can run, and every request returns
\* (fetch passes timeout=TIMEOUT and catches every exception): a step that
\* stays possible is eventually taken.
FairTargets == {Scenario1, Mixed}
FairInit == Start(FairTargets)
FairSpec == FairInit /\ [][Next]_vars /\ WF_vars(Next)

\* --------------------------------------------------------------- claims
CriticalFindings == { i \in 1..Len(findings) : findings[i].risk = "CRITICAL" }
HighFindings == { i \in 1..Len(findings) : findings[i].risk = "HIGH" }

\* C1 (invariant I1): in every reachable state of a scan, under every
\* interleaving of the ten tasks, critical_count is the number of entries of
\* findings whose risk is CRITICAL.
C1_CountMatchesFindings == critical_count = Cardinality(CriticalFindings)

\* findings holds a HIGH and a CRITICAL entry: the count differs from the length
C1_Witness == HighFindings # {} /\ CriticalFindings # {}

\* C2 (invariant I3): in every state a task can observe, stop_scan is true
\* exactly when critical_count has reached CRITICAL_STOP_THRESHOLD; the flag
\* is set in the step that records the second CRITICAL finding.
C2_StopIffThreshold == stop_scan <=> (critical_count >= CRITICAL_STOP_THRESHOLD)

\* the second CRITICAL finding has just been recorded
C2_Witness == stop_scan /\ critical_count = CRITICAL_STOP_THRESHOLD

\* C3 (invariant I2): once stop_scan is true, no step of a scan makes it false.
C3_StopIsMonotone == [][stop_scan => stop_scan']_vars

\* a finding was recorded after the flag was set, and the flag is still set
C3_Witness == stop_scan /\ critical_count > CRITICAL_STOP_THRESHOLD

\* C4: a request is issued only by a step that found stop_scan false: no step
\* adds a request while stop_scan is true before it or after it.
C4_NoRequestAfterStop ==
    [][requested' \ requested # {} => (~stop_scan /\ ~stop_scan')]_vars

\* stop_scan is set and a task has ended without having made its request
C4_Witness ==
    /\ stop_scan
    /\ \E t \in Tasks \ {IdorTask} : pc[t] = "done" /\ Req(t, 1) \notin requested

\* C5 (termination): when every request returns and the loop is fair, every
\* scan reaches the state where all ten tasks have ended and
\* termul_full_async has returned.
C5_ScanReturns == <>(phase = "returned" /\ \A t \in Tasks : pc[t] = "done")

\* a scan has returned after an early stop that left requests unissued
C5_Witness == phase = "returned" /\ stop_scan /\ requested # Requests

Finding(type, url, risk) == [type |-> type, endpoint |-> url, risk |-> risk]
RequestsOf(ts) == { r \in requested : r[1] \in ts }

\* C6: when every request ends in a network failure the scan has, in every
\* state up to and including its last, no finding, critical_count 0,
\* stop_scan false and an empty logic_graph, and when it has returned all 14
\* requests (4 + 2 + 5 + 2 + 1) were attempted.
C6_AllFailScan ==
    target = AllFail =>
      /\ findings = << >>
      /\ critical_count = 0
      /\ ~stop_scan
      /\ DOMAIN logic_graph = {}
      /\ phase = "returned" =>
        /\ requested = Requests
        /\ Cardinality(requested) = 14
        /\ Cardinality(RequestsOf(ExposedTasks)) = 4
        /\ Cardinality(RequestsOf(MissingAuthTasks)) = 2
        /\ Cardinality(RequestsOf({IdorTask})) = 5
        /\ Cardinality(RequestsOf(PrivilegeTasks)) = 2
        /\ Cardinality(RequestsOf({WorkflowTask})) = 1

\* the scan of a server whose every request fails has returned
C6_Witness == target = AllFail /\ phase = "returned"

\* C7: every invocation of termul_full_async, a second one in the same process
\* included, starts with empty findings, critical_count 0, stop_scan false and
\* an empty logic_graph.
C7_FreshStateAtStart ==
    (phase = "running" /\ \A t \in Tasks : pc[t] = "sleep") =>
        /\ findings = << >>
        /\ critical_count = 0
        /\ ~stop_scan
        /\ DOMAIN logic_graph = {}

\* C8: with 200 for the IDOR ids 1 and 2 and non-200 for everything else, no
\* request for id 3, 4 or 5 is ever issued, and the scan ends with exactly
\* the two CRITICAL IDOR findings and two DATA_DISCLOSURE labels under IDOR.
C8_IdorScenario ==
    target = Idor12 =>
        /\ \A i \in 3..5 : Req(IdorTask, i) \notin requested
        /\ phase = "returned" =>
              /\ findings = << Finding("IDOR", IdorUrl(1), "CRITICAL"),
                               Finding("IDOR", IdorUrl(2), "CRITICAL") >>
              /\ critical_count = 2
              /\ DOMAIN logic_graph = {"IDOR"}
              /\ logic_graph["IDOR"] = << "DATA_DISCLOSURE", "DATA_DISCLOSURE" >>

\* the IDOR scenario has run to its end
C8_Witness == target = Idor12 /\ phase = "returned" /\ Len(findings) = 2

\* C9: with exactly two CRITICAL-producing requests answered 200 and the rest
\* non-200, neither of the two requests is skipped by the task that should
\* make it, and every scan ends with stop_scan true and critical_count 2.
C9_ThresholdPair ==
    (Cardinality(Positive(target)) = 2 /\ Positive(target) \subseteq CriticalRequests) =>
        /\ \A r \in Positive(target) :
              (pc[r[1]] = "done" \/ (r[1] = IdorTask /\ idor_i > r[2]))
                  => r \in requested
        /\ phase = "returned" =>
              /\ stop_scan
              /\ critical_count = 2
              /\ Positive(target) \subseteq requested

\* a scan of a pair target has returned with other checks skipped
C9_Witness ==
    /\ Cardinality(Positive(target)) = 2
    /\ Positive(target) \subseteq CriticalRequests
    /\ phase = "returned"
    /\ requested # Requests

\* C10: with 200 only for GET /admin (ExposedRoute) and GET
\* /api/internal/report (MissingAuth) and 404 elsewhere, every scan ends with
\* exactly those two findings in either order, critical_count 1, stop_scan
\* false and all 14 requests issued; no other finding is recorded on the way.
C10_Scenario1 ==
    target = Scenario1 =>
        LET e == Finding("EXPOSED_ROUTE", "https://target.com/admin", "HIGH")
            m == Finding("MISSING_AUTH", "https://target.com/api/internal/report",
                         "CRITICAL")
        IN  /\ \A i \in 1..Len(findings) : findings[i] \in {e, m}
            /\ phase = "returned" =>
                  /\ findings \in { << e, m >>, << m, e >> }
                  /\ critical_count = 1
                  /\ ~stop_scan
                  /\ requested = Requests
                  /\ Cardinality(requested) = 14

\* scenario 1 has ended with the MISSING_AUTH finding recorded first
C10_Witness ==
    /\ target = Scenario1
    /\ phase = "returned"
    /\ Len(findings) = 2
    /\ findings[1].type = "MISSING_AUTH"

\* ---- what the state tells of the requests
\* request r was issued and fetch has returned for it
Answered(r) ==
    /\ r \in requested
    /\ IF r[1] = IdorTask THEN pc[IdorTask] = "done" \/ idor_i > r[2]
       ELSE pc[r[1]] = "done"
\* the requests handed to fetch that have not returned
InFlight == { r \in requested : ~Answered(r) }
\* the entries of findings of one type
OfType(type) == { i \in 1..Len(findings) : findings[i].type = type }
\* the labels stored under a key of logic_graph, none when the key is absent
Labels(key) == IF key \in DOMAIN logic_graph THEN logic_graph[key] ELSE << >>

\* C11 (scenario 2): with 200 for both privilege endpoints and for IDOR id 1,
\* stop_scan becomes true in the step that takes critical_count from 1 to 2,
\* the scan returns with stop_scan true, check_idor's loop goes on to a next
\* id only in a step that leaves stop_scan false, and once the task has ended
\* no IDOR request, IDOR finding or IDOR label is added.
C11_Scenario2 ==
    [][target = Scenario2 =>
        /\ (~stop_scan /\ stop_scan') =>
              (critical_count = 1 /\ critical_count' = 2)
        /\ phase' = "returned" => stop_scan'
        /\ (pc[IdorTask] = "fetch" /\ idor_i' # idor_i) => ~stop_scan'
        /\ pc[IdorTask] = "done" =>
              /\ pc'[IdorTask] = "done"
              /\ \A i \in IdorIds : Req(IdorTask, i) \in requested'
                                      => Req(IdorTask, i) \in requested
              /\ Cardinality(OfType("IDOR")') = Cardinality(OfType("IDOR"))
              /\ Labels("IDOR")' = Labels("IDOR")
    ]_vars

\* scenario 2 has returned with all three CRITICAL findings, check_idor having
\* stopped after id 1
C11_Witness ==
    /\ target = Scenario2
    /\ phase = "returned"
    /\ critical_count = 3
    /\ Req(IdorTask, 2) \notin requested

C13_PacingGate ==
    [][/\ \A r \in requested' : pc'[r[1]] \in {"fetch", "done"}
       /\ \A t \in Tasks :
            /\ pc[t] \in {"fetch", "done"} => pc'[t] \in {"fetch", "done"}
            /\ (pc[t] = "sleep" /\ pc'[t] # "sleep" /\ stop_scan) =>
                  /\ pc'[t] = "done"
                  /\ requested' = requested
                  /\ sent' = sent
    ]_vars

\* check_idor is past its first request while another task is still in its
\* delay and a third one has ended without a request
C13_Witness ==
    /\ pc[IdorTask] = "fetch"
    /\ idor_i >= 2
    /\ \E t \in Tasks : pc[t] = "sleep"
    /\ \E t \in Tasks \ {IdorTask} : pc[t] = "done" /\ Req(t, 1) \notin requested

\* the type each check variant records and the url it requests
TypeOf(t) ==
    CASE t \in ExposedTasks     -> "EXPOSED_ROUTE"
      [] t \in MissingAuthTasks -> "MISSING_AUTH"
      [] t = IdorTask           -> "IDOR"
      [] t \in PrivilegeTasks   -> "PRIVILEGE_ESCALATION"
      [] t = WorkflowTask       -> "WORKFLOW_BYPASS"
UrlOf(r) == IF r[1] = IdorTask THEN IdorUrl(r[2]) ELSE TaskUrl(r[1])
RiskOf(type) == IF type \in {"EXPOSED_ROUTE", "WORKFLOW_BYPASS"} THEN "HIGH"
                ELSE "CRITICAL"
\* the requests fetch has returned for with status 200
Answered200 == { r \in requested : Answered(r) /\ fetch(target[r]) = 200 }

\* C14 (classification): in every reachable state the findings are exactly
\* one entry for each completed request whose status was 200, of the type of
\* its check and with its url, and every entry has the risk of its type:
\* HIGH for EXPOSED_ROUTE and WORKFLOW_BYPASS, CRITICAL for MISSING_AUTH, IDOR
\* and PRIVILEGE_ESCALATION.
C14_Classification ==
    /\ \A i \in 1..Len(findings) : findings[i].risk = RiskOf(findings[i].type)
    /\ { findings[i] : i \in 1..Len(findings) }
         = { Finding(TypeOf(r[1]), UrlOf(r), RiskOf(TypeOf(r[1]))) : r \in Answered200 }
    /\ Len(findings) = Cardinality(Answered200)

\* both HIGH variants have recorded a finding and a request of a CRITICAL
\* variant has been answered with a status other than 200
C14_Witness ==
    /\ OfType("EXPOSED_ROUTE") # {}
    /\ OfType("WORKFLOW_BYPASS") # {}
    /\ \E r \in CriticalRequests : Answered(r) /\ fetch(target[r]) = 403

\* C15 (frame): the step in which fetch returns a network failure or a status
\* other than 200 (429 and 403 included) leaves findings, critical_count,
\* stop_scan and logic_graph as they were; a request once answered stays
\* answered and every call of fetch is for a request not made before.
C15_NegativeLeavesStateAlone ==
    [][/\ \A r \in requested :
            /\ (~Answered(r) /\ Answered(r)' /\ fetch(target[r]) # 200)
                  => Globals' = Globals
            /\ Answered(r) => Answered(r)'
       /\ sent' - sent = Cardinality(requested' \ requested)
    ]_vars

\* after a first finding, requests have ended in 429 and in 403 and the
\* finding is still the only one
C15_Witness ==
    /\ \E r \in requested : Answered(r) /\ fetch(target[r]) = 429
    /\ \E r \in requested : Answered(r) /\ fetch(target[r]) = 403
    /\ Len(findings) = 1
    /\ critical_count = 1

\* the label each correlating check stores under its key
LabelOf(key) ==
    CASE key = "IDOR"                 -> "DATA_DISCLOSURE"
      [] key = "PRIVILEGE_ESCALATION" -> "ADMIN_ACTION"
      [] key = "WORKFLOW_BYPASS"      -> "FINANCIAL_IMPACT"
CorrelatedTypes == {"IDOR", "PRIVILEGE_ESCALATION", "WORKFLOW_BYPASS"}

\* C16 (correlation graph): in every reachable state logic_graph has keys
\* only among IDOR, PRIVILEGE_ESCALATION and WORKFLOW_BYPASS, each key holds
\* as many labels as there are findings of that type, every label is the one
\* of its key, and EXPOSED_ROUTE and MISSING_AUTH findings add no key.
C16_GraphMatchesFindings ==
    /\ DOMAIN logic_graph \subseteq CorrelatedTypes
    /\ \A key \in CorrelatedTypes :
          /\ Len(Labels(key)) = Cardinality(OfType(key))
          /\ \A j \in 1..Len(Labels(key)) : Labels(key)[j] = LabelOf(key)
          /\ key \in DOMAIN logic_graph <=> OfType(key) # {}

\* two labels each under IDOR and PRIVILEGE_ESCALATION beside MISSING_AUTH
\* findings that added none
C16_Witness ==
    /\ Len(Labels("IDOR")) = 2
    /\ Len(Labels("PRIVILEGE_ESCALATION")) = 2
    /\ OfType("MISSING_AUTH") # {}
    /\ DOMAIN logic_graph = {"IDOR", "PRIVILEGE_ESCALATION"}

\* C17 (no retries, append-only findings): every step keeps the number of
\* fetch calls of the scan equal to the number of distinct requests issued,
\* which is at most 14; findings never holds two entries with the same type
\* and endpoint; findings only grows, and the entries it had stay in place
\* unchanged.
C17_NoRetryAppendOnly ==
    [][/\ requested' \subseteq Requests
       /\ sent' = Cardinality(requested')
       /\ sent' <= 14
       /\ \A i, j \in 1..Len(findings') :
             (/\ findings'[i].type = findings'[j].type
              /\ findings'[i].endpoint = findings'[j].endpoint) => i = j
       /\ Len(findings') >= Len(findings)
       /\ SubSeq(findings', 1, Len(findings)) = findings ]_vars

\* a scan that has issued requests with failed, negative and positive
\* outcomes and has recorded findings
C17_Witness ==
    /\ phase = "returned"
    /\ sent >= 11
    /\ Len(findings) >= 2
    /\ \E r \in requested : Answered(r) /\ fetch(target[r]) # 200

\* C18 (IDOR self-limit): in every reachable state the IDOR check has
\* recorded at most 2 findings and at most 2 IDOR -> DATA_DISCLOSURE edges,
\* whatever the server answers for the five ids; once it has recorded two,
\* it issues no further id.
C18_IdorAtMostTwo ==
    [][/\ Cardinality(OfType("IDOR")') <= CRITICAL_STOP_THRESHOLD
       /\ Len(Labels("IDOR")') <= CRITICAL_STOP_THRESHOLD
       /\ Cardinality(OfType("IDOR")) = CRITICAL_STOP_THRESHOLD =>
             \A i \in IdorIds : Req(IdorTask, i) \in requested' => Req(IdorTask, i) \in requested
      ]_vars

\* the server answers 200 for all five ids, the check has finished with two
\* findings and ids 3..5 were never requested
C18_Witness ==
    /\ \A i \in IdorIds : fetch(target[Req(IdorTask, i)]) = 200
    /\ pc[IdorTask] = "done"
    /\ Cardinality(OfType("IDOR")) = 2
    /\ Len(Labels("IDOR")) = 2
    /\ \A i \in 3..5 : Req(IdorTask, i) \notin requested

\* the most CRITICAL findings a scan can record: two MISSING_AUTH, two
\* PRIVILEGE_ESCALATION and the IDOR check's own two
MaxCritical == Cardinality(MissingAuthTasks) + Cardinality(PrivilegeTasks) + CRITICAL_STOP_THRESHOLD
\* the most HIGH findings: four EXPOSED_ROUTE and one WORKFLOW_BYPASS
MaxHigh == Cardinality(ExposedTasks) + 1

IdorPending(i) == Req(IdorTask, i) \in requested /\ ~Answered(Req(IdorTask, i))
\* the ids of the IDOR requests in flight
IdorInFlight == { i \in IdorIds : IdorPending(i) }

\* C20 (sequential IDOR probing): the IDOR ids requested so far are always
\* 1..n for some n, with at most one IDOR request in flight; the request for
\* id i+1 is issued in the very step that finishes processing the response
\* for id i, and that step issues it whenever i < 5 and stop_scan is false
\* after processing, whether the outcome for id i was 200, another status or
\* a network failure.
C20_IdorSequential ==
    [][/\ Cardinality(IdorInFlight') <= 1
       /\ \A i \in IdorIds \ {1} :
             /\ Req(IdorTask, i) \in requested' => Req(IdorTask, i - 1) \in requested'
             /\ (Req(IdorTask, i) \in requested' /\ Req(IdorTask, i) \notin requested) =>
                   /\ IdorPending(i - 1)
                   /\ Answered(Req(IdorTask, i - 1))'
                   /\ ~stop_scan'
       /\ \A i \in IdorIds \ {5} :
             (IdorPending(i) /\ ~stop_scan' /\ Answered(Req(IdorTask, i))') =>
                 IdorPending(i + 1)' ]_vars

\* every id failed on the network and the check still went through all five
C20_Witness ==
    /\ \A i \in IdorIds : fetch(target[Req(IdorTask, i)]) = None
    /\ \A i \in IdorIds : Req(IdorTask, i) \in requested
    /\ pc[IdorTask] = "done"
    /\ ~stop_scan

====
